---- MODULE Spec2Model ----
(***************************************************************************)
(* Model of the badr-vendors microservice: the Express handlers of         *)
(* src/vendor.js running against the PostgreSQL schema of src/schema.sql,  *)
(* and the token middleware of src/vendor.js (validateToken, requireRole, *)
(* requireVendorAccess, optionalAuth).                                     *)
(*                                                                         *)
(* Every SQL statement is one atomic step of the store.  A handler that    *)
(* awaits several statements is a sequence of steps that other requests    *)
(* may interleave with; the JavaScript between two awaits runs with the    *)
(* statement before it.  Request bodies are well formed except in the      *)
(* fields a handler's constraints are about (reference fields, type,       *)
(* rating, status, is_like); path ids are well-formed UUIDs.               *)
(***************************************************************************)
EXTENDS Integers, FiniteSets, Sequences, TLC

VARIABLES vendors, vendor_branches, menu_items, offers,
          favorites, reviews, review_likes,
          nextId, reqs, resp, mw,
          review_replies, now, listing

dbVars == <<vendors, vendor_branches, menu_items, offers,
            favorites, reviews, review_likes, nextId>>
\* The state only the reply and the listing routes touch: the review_replies
\* table, the store's clock NOW(), and the rows the last GET returned.
readVars == <<review_replies, now, listing>>
vars == <<vendors, vendor_branches, menu_items, offers,
          favorites, reviews, review_likes, nextId, reqs, resp, mw,
          review_replies, now, listing>>

(* ------------------------------ bounds -------------------------------- *)
MaxVendors == 2
MaxBranches == 1
MaxMenuItems == 1
MaxInFlight == 1
MaxFavorites == 2
MaxReviews == 1
MaxReplies == 2
MaxDate == 3
MaxNow == 3
MaxOffers == 2
MaxPrice == 3

(* ------------------------------ values -------------------------------- *)
\* SQL NULL / JavaScript undefined in an id or number position.
NULL == 0
\* SQL NULL / JavaScript undefined in a text position.
NoText == "<null>"
\* No authenticated principal (req.user not set).
NoUser == "<anonymous>"

\* Rows of the users table (created by the external signup), with the roles
\* the JWT payload of each carries.
Users == {"vendorA", "vendorC", "customer1", "customer2", "admin"}
UserRoles(u) ==
    CASE u = "vendorA" -> {"vendor"}
      [] u = "vendorC" -> {"vendor"}
      [] u = "customer1" -> {"customer"}
      [] u = "customer2" -> {"customer"}
      [] u = "admin" -> {"admin"}
      [] OTHER -> {}

\* What the Authorization header of a request to vendor.js carries: nothing,
\* a token jwt.verify rejects, or a token signed for a user.
Tokens == {"<none>", "<forged>"} \cup Users
\* The callers of the vendor-side endpoints: one customer stands for both.
VendorSideTokens == Tokens \ {"customer2"}
\* The callers of the customer-side endpoints: one vendor stands for every
\* principal without the customer role.
CustomerSideTokens == {"<none>", "vendorA", "customer1", "customer2"}

\* registration_status CHECK (schema.sql:72)
RegistrationStatuses == {"pending", "approved", "rejected", "suspended"}

(* ----------------------------- checkRole ------------------------------ *)
\* A role test every payload passes: under it C16_StatusByAdminOnly fails.
RolesIncludeAnything(roles, requiredRole) == TRUE

\* Array.prototype.includes(requiredRole) on the payload's roles.
RolesInclude(roles, requiredRole) == requiredRole \in roles

\* A gate that takes the array of the replies route as a set of acceptable
\* roles: under it C12_ReplyAuthorOrOwner fails.
CheckRoleAnyOf(token, requiredRole) ==
    IF token = "<none>" THEN 401
    ELSE IF token = "<forged>" THEN 401
    ELSE IF requiredRole = "vendor,customer"
    THEN IF UserRoles(token) \cap {"vendor", "customer"} = {} THEN 403 ELSE 0
    ELSE IF ~RolesInclude(UserRoles(token), requiredRole) THEN 403
    ELSE 0

\* The status checkRole answers with, or 0 when it calls next().
CheckRole(token, requiredRole) ==
    IF token = "<none>" THEN 401
    ELSE IF token = "<forged>" THEN 401
    ELSE IF ~RolesInclude(UserRoles(token), requiredRole) THEN 403
    ELSE 0

\* req.user.id once checkRole has attached the payload.
Principal(token) == IF token \in Users THEN token ELSE NoUser

(* --------------------------- request records -------------------------- *)
IdleReq == [op |-> "none", user |-> NoUser, vendorId |-> NULL,
            branchId |-> NULL, target |-> NULL, arg |-> NoText,
            num |-> NULL, start_date |-> NULL, end_date |-> NULL,
            pc |-> "idle"]

\* The reference fields of a favorites or reviews body:
\* <<branch_id, menu_item_id, offer_id>>.
NoRefs == <<NULL, NULL, NULL>>

\* The last response sent, with the request it answers: the endpoint, the
\* principal, the path id, the body's text, number and reference fields.
NoResp == [op |-> "none", user |-> NoUser, target |-> NULL, arg |-> NoText,
           num |-> NULL, refs |-> NoRefs, status |-> 0]

Slots == 1..MaxInFlight

\* A request on its way through validateToken and requireRole: the
\* Authorization header, the roles the route requires, the auth service's
\* answer, req.user, the calls of next() by validateToken, whether the
\* route's handler was reached, the status sent (0: none), and the vendorId
\* of the path and of the body (requireVendorAccess reads them).
NoAnswer == [kind |-> "none", status |-> 0, valid |-> FALSE]
NoPrincipal == [uid |-> NoUser, role |-> NoText]
AnyRoles == [array |-> FALSE, single |-> NoText, roles |-> {}]
IdleMw == [pc |-> "idle", header |-> "<absent>", token |-> NoText,
           required |-> AnyRoles, answer |-> NoAnswer, user |-> NoPrincipal,
           nextCalls |-> 0, handled |-> FALSE, status |-> 0,
           paramsVendorId |-> NULL, bodyVendorId |-> NULL]

Respond(op, user, target, arg, num, status) ==
    resp' = [op |-> op, user |-> user, target |-> target, arg |-> arg,
             num |-> num, refs |-> NoRefs, status |-> status]

RespondRefs(op, user, body, status) ==
    resp' = [op |-> op, user |-> user, target |-> NULL, arg |-> body.type,
             num |-> body.rating,
             refs |-> <<body.branch_id, body.menu_item_id, body.offer_id>>,
             status |-> status]

Init ==
    /\ vendors = {}
    /\ vendor_branches = {}
    /\ menu_items = {}
    /\ offers = {}
    /\ favorites = {}
    /\ reviews = {}
    /\ review_likes = {}
    /\ nextId = 1
    /\ reqs = [s \in Slots |-> IdleReq]
    /\ resp = NoResp
    /\ mw = IdleMw
    /\ review_replies = {}
    /\ now = 0
    /\ listing = {}

(* ------------------------------ queries ------------------------------- *)
\* The vendor check without its registration_status condition: under it
\* C1_BranchCreation fails.
VendorCheckAnyStatus(vendorId, userId) ==
    {v \in vendors : v.id = vendorId /\ v.user_id = userId}

\* A vendor check that turns away rejected vendors only: under it
\* C23_LatestApprovalState fails.
VendorCheckNotRejected(vendorId, userId) ==
    {v \in vendors : /\ v.id = vendorId
                     /\ v.user_id = userId
                     /\ v.registration_status # "rejected"}

\* SELECT * FROM vendors WHERE id = $1 AND user_id = $2 AND registration_status = 'approved'
VendorCheck(vendorId, userId) ==
    {v \in vendors : /\ v.id = vendorId
                     /\ v.user_id = userId
                     /\ v.registration_status = "approved"}

\* The branch check without its vendor_id condition: under it
\* C8_OwnedPlacement fails.
BranchCheckAnyVendor(branchId, vendorId) ==
    {b \in vendor_branches : b.id = branchId}

\* SELECT * FROM vendor_branches WHERE id = $1 AND vendor_id = $2
BranchCheck(branchId, vendorId) ==
    {b \in vendor_branches : b.id = branchId /\ b.vendor_id = vendorId}

\* Path ids a client may send: the id of an existing row or an unknown one.
VendorIdInputs == {v.id : v \in vendors} \cup {MaxVendors + 1}
BranchIdInputs == {b.id : b \in vendor_branches} \cup {MaxBranches + 1}

(* ------------------------- POST /vendors/register --------------------- *)
RegisterVendor(token) ==
    IF CheckRole(token, "vendor") # 0
    THEN /\ Respond("register", Principal(token), NULL, NoText, NULL,
                    CheckRole(token, "vendor"))
         /\ UNCHANGED <<dbVars, reqs, mw, readVars>>
    ELSE /\ Cardinality(vendors) < MaxVendors
         /\ LET id == Cardinality(vendors) + 1 IN
            /\ vendors' = vendors \cup
                  {[id |-> id, user_id |-> Principal(token),
                    registration_status |-> "pending"]}
            /\ Respond("register", Principal(token), id, NoText, NULL, 200)
         /\ UNCHANGED <<vendor_branches, menu_items, offers, favorites,
                        reviews, review_likes, nextId, reqs, mw, readVars>>

(* --------------------- PUT /vendors/:vendorId/approve ----------------- *)
\* req.body.status: the two documented values, the other values the column
\* admits, a value it does not admit, and a missing status.
StatusInputs == RegistrationStatuses \cup {"bogus", NoText}

\* CHECK (registration_status IN (...)): a CHECK passes when it is true or NULL.
RegistrationStatusCheck(status) ==
    status = NoText \/ status \in RegistrationStatuses

ApproveVendor(token, vendorId, status) ==
    IF CheckRole(token, "admin") # 0
    THEN /\ Respond("approve", Principal(token), NULL, NoText, NULL,
                    CheckRole(token, "admin"))
         /\ UNCHANGED <<dbVars, reqs, mw, readVars>>
    ELSE LET rows == {v \in vendors : v.id = vendorId} IN
         IF rows = {}
         THEN /\ Respond("approve", Principal(token), vendorId, status, NULL, 404)
              /\ UNCHANGED <<dbVars, reqs, mw, readVars>>
         ELSE IF ~RegistrationStatusCheck(status)
         THEN /\ Respond("approve", Principal(token), vendorId, status, NULL, 500)
              /\ UNCHANGED <<dbVars, reqs, mw, readVars>>
         ELSE /\ vendors' = (vendors \ rows) \cup
                     {[v EXCEPT !.registration_status = status] : v \in rows}
              /\ Respond("approve", Principal(token), vendorId, status, NULL, 200)
              /\ UNCHANGED <<vendor_branches, menu_items, offers, favorites,
                             reviews, review_likes, nextId, reqs, mw, readVars>>

(* ------------------- POST /vendors/:vendorId/branches ----------------- *)
\* checkRole, then the vendorCheck SELECT and the test of its rows.
CreateBranchCheck(s, token, vendorId) ==
    /\ reqs[s].pc = "idle"
    /\ IF CheckRole(token, "vendor") # 0
       THEN /\ Respond("branch", Principal(token), NULL, NoText, NULL,
                       CheckRole(token, "vendor"))
            /\ UNCHANGED <<dbVars, reqs, mw, readVars>>
       ELSE IF VendorCheck(vendorId, Principal(token)) = {}
       THEN /\ Respond("branch", Principal(token), vendorId, NoText, NULL, 403)
            /\ UNCHANGED <<dbVars, reqs, mw, readVars>>
       ELSE /\ reqs' = [reqs EXCEPT ![s] =
                   [IdleReq EXCEPT !.op = "branch", !.user = Principal(token),
                                   !.vendorId = vendorId, !.pc = "insert"]]
            /\ UNCHANGED <<dbVars, resp, mw, readVars>>

\* INSERT INTO vendor_branches (vendor_id, name, address)
CreateBranchInsert(s) ==
    /\ reqs[s].op = "branch"
    /\ reqs[s].pc = "insert"
    /\ Cardinality(vendor_branches) < MaxBranches
    /\ LET id == Cardinality(vendor_branches) + 1 IN
       /\ vendor_branches' = vendor_branches \cup
             {[id |-> id, vendor_id |-> reqs[s].vendorId,
               created_by |-> reqs[s].user]}
       /\ Respond("branch", reqs[s].user, reqs[s].vendorId, NoText, NULL, 200)
       /\ reqs' = [reqs EXCEPT ![s] = IdleReq]
    /\ UNCHANGED <<vendors, menu_items, offers, favorites, reviews,
                   review_likes, nextId, mw, readVars>>

(* ------------ POST /vendors/:vendorId/branches/:branchId/menu --------- *)
CreateMenuItemVendorCheck(s, token, vendorId, branchId) ==
    /\ reqs[s].pc = "idle"
    /\ IF CheckRole(token, "vendor") # 0
       THEN /\ Respond("menu", Principal(token), NULL, NoText, NULL,
                       CheckRole(token, "vendor"))
            /\ UNCHANGED <<dbVars, reqs, mw, readVars>>
       ELSE IF VendorCheck(vendorId, Principal(token)) = {}
       THEN /\ Respond("menu", Principal(token), vendorId, NoText, branchId, 403)
            /\ UNCHANGED <<dbVars, reqs, mw, readVars>>
       ELSE /\ reqs' = [reqs EXCEPT ![s] =
                   [IdleReq EXCEPT !.op = "menu", !.user = Principal(token),
                                   !.vendorId = vendorId, !.branchId = branchId,
                                   !.pc = "branchCheck"]]
            /\ UNCHANGED <<dbVars, resp, mw, readVars>>

\* The branchCheck SELECT of the menu and of the offers handler.
CreateBranchCheckStep(s) ==
    /\ reqs[s].op \in {"menu", "offer"}
    /\ reqs[s].pc = "branchCheck"
    /\ IF BranchCheck(reqs[s].branchId, reqs[s].vendorId) = {}
       THEN /\ Respond(reqs[s].op, reqs[s].user, reqs[s].vendorId, NoText,
                       reqs[s].branchId, 404)
            /\ reqs' = [reqs EXCEPT ![s] = IdleReq]
       ELSE /\ reqs' = [reqs EXCEPT ![s].pc = "insert"]
            /\ UNCHANGED resp
    /\ UNCHANGED <<dbVars, mw, readVars>>

\* INSERT INTO menu_items (branch_id, name, price, description, image_path)
CreateMenuItemInsert(s) ==
    /\ reqs[s].op = "menu"
    /\ reqs[s].pc = "insert"
    /\ Cardinality(menu_items) < MaxMenuItems
    /\ LET id == Cardinality(menu_items) + 1 IN
       /\ menu_items' = menu_items \cup
             {[id |-> id, branch_id |-> reqs[s].branchId,
               created_by |-> reqs[s].user]}
       /\ Respond("menu", reqs[s].user, reqs[s].vendorId, NoText,
                  reqs[s].branchId, 200)
       /\ reqs' = [reqs EXCEPT ![s] = IdleReq]
    /\ UNCHANGED <<vendors, vendor_branches, offers, favorites, reviews,
                   review_likes, nextId, mw, readVars>>

(* ----------- POST /vendors/:vendorId/branches/:branchId/offers -------- *)
\* Columns of the offers table (schema.sql:159-175) and the columns the
\* handler's INSERT names (vendor.js:148).
OffersColumns ==
    {"id", "branch_id", "title", "description", "discount_type",
     "discount_value", "minimum_order_amount", "maximum_discount",
     "start_date", "end_date", "is_active", "usage_limit", "current_usage",
     "created_at", "updated_at", "deleted_at"}
OfferInsertColumns ==
    {"branch_id", "title", "description", "discount_percentage",
     "start_date", "end_date"}

\* offers: start_date TIMESTAMP NOT NULL, end_date TIMESTAMP NOT NULL
OfferDatesNotNull(row) == row.start_date # NULL /\ row.end_date # NULL

\* A constraint that admits every pair of dates: under it
\* C17_OfferWindow fails.
AnyDates(row) == TRUE

\* offers: CONSTRAINT valid_dates CHECK (start_date < end_date)
ValidDates(row) == row.start_date < row.end_date

\* req.body.start_date and req.body.end_date: points in time, or missing.
DateInputs == {NULL} \cup (1..MaxDate)
OfferBodies == [start_date : DateInputs, end_date : DateInputs]
UnreadOfferBody == [start_date |-> NULL, end_date |-> NULL]

CreateOfferVendorCheck(s, token, vendorId, branchId, body) ==
    /\ reqs[s].pc = "idle"
    /\ IF CheckRole(token, "vendor") # 0
       THEN /\ Respond("offer", Principal(token), NULL, NoText, NULL,
                       CheckRole(token, "vendor"))
            /\ UNCHANGED <<dbVars, reqs, mw, readVars>>
       ELSE IF VendorCheck(vendorId, Principal(token)) = {}
       THEN /\ Respond("offer", Principal(token), vendorId, NoText, branchId, 403)
            /\ UNCHANGED <<dbVars, reqs, mw, readVars>>
       ELSE /\ reqs' = [reqs EXCEPT ![s] =
                   [IdleReq EXCEPT !.op = "offer", !.user = Principal(token),
                                   !.vendorId = vendorId, !.branchId = branchId,
                                   !.start_date = body.start_date,
                                   !.end_date = body.end_date,
                                   !.pc = "branchCheck"]]
            /\ UNCHANGED <<dbVars, resp, mw, readVars>>

\* The response to an offers request that reached the INSERT: it records
\* the two dates of the body in place of the reference fields.
RespondOffer(s, status) ==
    resp' = [op |-> "offer", user |-> reqs[s].user,
             target |-> reqs[s].vendorId, arg |-> NoText,
             num |-> reqs[s].branchId,
             refs |-> <<reqs[s].start_date, reqs[s].end_date, NULL>>,
             status |-> status]

\* INSERT INTO offers (..., discount_percentage, ...): the statement names a
\* column the table does not have, the store raises, the handler answers 500.
\* Were the column there, the row would have to pass the table's constraints.
CreateOfferInsert(s) ==
    /\ reqs[s].op = "offer"
    /\ reqs[s].pc = "insert"
    /\ IF /\ OfferInsertColumns \subseteq OffersColumns
          /\ OfferDatesNotNull(reqs[s])
          /\ ValidDates(reqs[s])
       THEN /\ offers' = offers \cup
                  {[id |-> Cardinality(offers) + 1,
                    branch_id |-> reqs[s].branchId,
                    created_by |-> reqs[s].user,
                    start_date |-> reqs[s].start_date,
                    end_date |-> reqs[s].end_date]}
            /\ RespondOffer(s, 200)
            /\ reqs' = [reqs EXCEPT ![s] = IdleReq]
       ELSE /\ RespondOffer(s, 500)
            /\ reqs' = [reqs EXCEPT ![s] = IdleReq]
            /\ UNCHANGED offers
    /\ UNCHANGED <<vendors, vendor_branches, menu_items, favorites, reviews,
                   review_likes, nextId, mw, readVars>>

(* ---------------------- GET /branches/:branchId/menu ------------------ *)
\* The texts of the model (names, descriptions, search texts) and their
\* characters.
SearchInputs == {NoText, "a", "B", "D", "z", "_", "%"}
Chars(text) ==
    CASE text = "Ab" -> <<"A", "b">>
      [] text = "cd" -> <<"c", "d">>
      [] text = "b%" -> <<"b", "%">>
      [] text = "a" -> <<"a">>
      [] text = "B" -> <<"B">>
      [] text = "D" -> <<"D">>
      [] text = "z" -> <<"z">>
      [] text = "_" -> <<"_">>
      [] text = "%" -> <<"%">>
      [] OTHER -> <<>>

\* ILIKE compares without regard to case.
Fold(c) ==
    CASE c = "A" -> "a"
      [] c = "B" -> "b"
      [] c = "D" -> "d"
      [] OTHER -> c
FoldAll(chars) == [i \in 1..Len(chars) |-> Fold(chars[i])]

\* text LIKE pattern: % stands for any run of characters, _ for any one
\* character, every other character for itself.
RECURSIVE Like(_, _)
Like(chars, pattern) ==
    IF pattern = <<>> THEN chars = <<>>
    ELSE IF Head(pattern) = "%"
    THEN \/ Like(chars, Tail(pattern))
         \/ chars # <<>> /\ Like(Tail(chars), pattern)
    ELSE IF chars = <<>> THEN FALSE
    ELSE /\ Head(pattern) = "_" \/ Head(pattern) = Head(chars)
         /\ Like(Tail(chars), Tail(pattern))

ILike(text, pattern) == Like(FoldAll(Chars(text)), FoldAll(pattern))

\* `%${search}%`
SearchPattern(search) == <<"%">> \o Chars(search) \o <<"%">>

\* A query parameter that was not sent; a parameter that was sent is a
\* non-empty string, which `if (minPrice)` takes as true whatever its number.
NoPrice == -1
PriceInputs == {NoPrice} \cup (0..MaxPrice)

\* SELECT * FROM menu_items WHERE branch_id = $1
\*   [AND (name ILIKE $2 OR description ILIKE $2)]
\*   [AND price >= $n] [AND price <= $n]
MenuQuery(branchId, search, minPrice, maxPrice) ==
    {m \in menu_items :
        /\ m.branch_id = branchId
        /\ search # NoText
              => \/ ILike(m.name, SearchPattern(search))
                 \/ ILike(m.description, SearchPattern(search))
        /\ minPrice # NoPrice => m.price >= minPrice
        /\ maxPrice # NoPrice => m.price <= maxPrice}

\* The route has no middleware.  The response records the query: the search
\* text, and the two price bounds in place of the reference fields.
GetMenu(branchId, search, minPrice, maxPrice) ==
    /\ listing' = MenuQuery(branchId, search, minPrice, maxPrice)
    /\ resp' = [op |-> "menu-list", user |-> NoUser, target |-> branchId,
                arg |-> search, num |-> NULL,
                refs |-> <<minPrice, maxPrice, NULL>>, status |-> 200]
    /\ UNCHANGED <<dbVars, reqs, mw, review_replies, now>>

(* --------------------- GET /branches/:branchId/offers ----------------- *)
\* A listing that keeps an offer through the instant it ends: under it
\* C18_ActiveOffersListed fails.
OffersOfBranchNotOver(branchId) ==
    {o \in offers : o.branch_id = branchId /\ o.end_date >= now}

\* SELECT * FROM offers WHERE branch_id = $1 AND end_date > NOW()
ActiveOffers(branchId) ==
    {o \in offers : o.branch_id = branchId /\ o.end_date > now}

\* The route has no middleware: any caller, with or without a token.
GetOffers(branchId) ==
    /\ listing' = ActiveOffers(branchId)
    /\ Respond("offers", NoUser, branchId, NoText, NULL, 200)
    /\ UNCHANGED <<dbVars, reqs, mw, review_replies, now>>

\* Time passes at the store.
Tick ==
    /\ now < MaxNow
    /\ now' = now + 1
    /\ UNCHANGED <<dbVars, reqs, resp, mw, review_replies, listing>>

(* ---------------------- favorites and reviews rows -------------------- *)
\* Foreign keys of favorites and reviews: a non-null reference names a row.
ReferencesExist(row) ==
    /\ row.branch_id = NULL \/ \E b \in vendor_branches : b.id = row.branch_id
    /\ row.menu_item_id = NULL \/ \E m \in menu_items : m.id = row.menu_item_id
    /\ row.offer_id = NULL \/ \E o \in offers : o.id = row.offer_id

\* favorites: type NOT NULL CHECK (type IN ('branch', 'menu_item', 'offer'))
FavoriteTypeCheck(row) == row.type \in {"branch", "menu_item", "offer"}

\* A constraint that only asks for the reference the type names: under it
\* C2_ExactlyOneReference fails.
NamedFavoriteReference(row) ==
    \/ row.type = "branch" /\ row.branch_id # NULL
    \/ row.type = "menu_item" /\ row.menu_item_id # NULL
    \/ row.type = "offer" /\ row.offer_id # NULL

\* favorites: CONSTRAINT single_favorite_reference
SingleFavoriteReference(row) ==
    \/ /\ row.type = "branch" /\ row.branch_id # NULL
       /\ row.menu_item_id = NULL /\ row.offer_id = NULL
    \/ /\ row.type = "menu_item" /\ row.menu_item_id # NULL
       /\ row.branch_id = NULL /\ row.offer_id = NULL
    \/ /\ row.type = "offer" /\ row.offer_id # NULL
       /\ row.branch_id = NULL /\ row.menu_item_id = NULL

\* Two values of a UNIQUE column collide when both are non-null and equal:
\* PostgreSQL treats NULLs as distinct in a UNIQUE constraint.
UniqueColumnEqual(a, b) == a # NULL /\ b # NULL /\ a = b

\* favorites: CONSTRAINT unique_favorite UNIQUE
\*   (user_id, branch_id, menu_item_id, offer_id, type)
UniqueFavoriteConflict(row) ==
    \E f \in favorites :
        /\ f.user_id = row.user_id
        /\ UniqueColumnEqual(f.branch_id, row.branch_id)
        /\ UniqueColumnEqual(f.menu_item_id, row.menu_item_id)
        /\ UniqueColumnEqual(f.offer_id, row.offer_id)
        /\ f.type = row.type

\* reviews: type NOT NULL CHECK (type IN ('branch','menu_item','offer','overall'))
ReviewTypeCheck(row) == row.type \in {"branch", "menu_item", "offer", "overall"}

\* reviews: CONSTRAINT single_review_reference
SingleReviewReference(row) ==
    \/ /\ row.type = "branch" /\ row.branch_id # NULL
       /\ row.menu_item_id = NULL /\ row.offer_id = NULL
    \/ /\ row.type = "menu_item" /\ row.menu_item_id # NULL
       /\ row.branch_id = NULL /\ row.offer_id = NULL
    \/ /\ row.type = "offer" /\ row.offer_id # NULL
       /\ row.branch_id = NULL /\ row.menu_item_id = NULL
    \/ /\ row.type = "overall" /\ row.branch_id # NULL
       /\ row.menu_item_id = NULL /\ row.offer_id = NULL

\* The rating column with its NOT NULL alone: under it C27_RatingInRange
\* fails.
RatingNotNull(rating) == rating # NULL

\* reviews: rating INT NOT NULL CHECK (rating >= 1 AND rating <= 5)
RatingCheck(rating) == rating # NULL /\ rating >= 1 /\ rating <= 5

\* Bodies a client may send to POST /favorites and POST /reviews.
TypeInputs == {"branch", "menu_item", "offer", "overall"}
RatingInputs == {NULL, 1, 5, 6}
CommentInputs == {"tasty", "cold"}
BranchRefInputs == {NULL} \cup {b.id : b \in vendor_branches}
MenuItemRefInputs == {NULL} \cup {m.id : m \in menu_items}
OfferRefInputs == {NULL} \cup {o.id : o \in offers} \cup {Cardinality(offers) + 1}
FavoriteBodies ==
    [branch_id : BranchRefInputs, menu_item_id : MenuItemRefInputs,
     offer_id : OfferRefInputs, type : TypeInputs, rating : {NULL},
     comment : {NoText}]
\* Reviews of a branch, with every rating.
BranchReviewBodies ==
    [branch_id : BranchRefInputs \ {NULL}, menu_item_id : {NULL},
     offer_id : {NULL}, type : {"branch"}, rating : RatingInputs,
     comment : {"tasty"}]
\* Every combination of reference fields and type with a rating the column
\* admits, and the reviews of a branch with every rating.
ReviewBodies ==
    [branch_id : BranchRefInputs, menu_item_id : MenuItemRefInputs,
     offer_id : OfferRefInputs, type : TypeInputs, rating : {5},
     comment : {"tasty"}]
    \cup BranchReviewBodies
\* The body of a request checkRole rejects is never read.
UnreadBody ==
    [branch_id |-> NULL, menu_item_id |-> NULL, offer_id |-> NULL,
     type |-> NoText, rating |-> NULL, comment |-> NoText]

(* ---------------------------- POST /favorites ------------------------- *)
\* INSERT INTO favorites (user_id, branch_id, menu_item_id, offer_id, type):
\* the store raises when a constraint rejects the row and the handler's catch
\* answers 500.
AddFavorite(token, body) ==
    IF CheckRole(token, "customer") # 0
    THEN /\ RespondRefs("favorite", Principal(token), UnreadBody,
                        CheckRole(token, "customer"))
         /\ UNCHANGED <<dbVars, reqs, mw, readVars>>
    ELSE LET row == [id |-> Cardinality(favorites) + 1,
                     user_id |-> Principal(token),
                     branch_id |-> body.branch_id,
                     menu_item_id |-> body.menu_item_id,
                     offer_id |-> body.offer_id,
                     type |-> body.type] IN
         IF /\ FavoriteTypeCheck(row)
            /\ SingleFavoriteReference(row)
            /\ ReferencesExist(row)
            /\ ~UniqueFavoriteConflict(row)
         THEN /\ Cardinality(favorites) < MaxFavorites
              /\ favorites' = favorites \cup {row}
              /\ RespondRefs("favorite", Principal(token), body, 200)
              /\ UNCHANGED <<vendors, vendor_branches, menu_items, offers,
                             reviews, review_likes, nextId, reqs, mw, readVars>>
         ELSE /\ RespondRefs("favorite", Principal(token), body, 500)
              /\ UNCHANGED <<dbVars, reqs, mw, readVars>>

(* ----------------------------- POST /reviews -------------------------- *)
\* INSERT INTO reviews (user_id, branch_id, menu_item_id, offer_id, rating,
\* comment, type), then notifyConsumers and res.json.
PostReview(token, body) ==
    IF CheckRole(token, "customer") # 0
    THEN /\ RespondRefs("review", Principal(token), UnreadBody,
                        CheckRole(token, "customer"))
         /\ UNCHANGED <<dbVars, reqs, mw, readVars>>
    ELSE LET row == [id |-> nextId,
                     user_id |-> Principal(token),
                     branch_id |-> body.branch_id,
                     menu_item_id |-> body.menu_item_id,
                     offer_id |-> body.offer_id,
                     rating |-> body.rating,
                     comment |-> body.comment,
                     type |-> body.type] IN
         IF /\ ReviewTypeCheck(row)
            /\ SingleReviewReference(row)
            /\ RatingCheck(row.rating)
            /\ ReferencesExist(row)
         THEN /\ nextId <= MaxReviews
              /\ reviews' = reviews \cup {row}
              /\ nextId' = nextId + 1
              /\ RespondRefs("review", Principal(token), body, 200)
              /\ UNCHANGED <<vendors, vendor_branches, menu_items, offers,
                             favorites, review_likes, reqs, mw, readVars>>
         ELSE /\ RespondRefs("review", Principal(token), body, 500)
              /\ UNCHANGED <<dbVars, reqs, mw, readVars>>

(* -------------------------- PUT /reviews/:reviewId -------------------- *)
\* Path ids a client may send: the id of a review that exists or existed (a
\* request sent while the review was there may run after its delete), or an
\* id never handed out.
ReviewIdInputs == 1..nextId

\* The update without its user_id condition: under it C7_AuthorOnly fails.
EditReviewRowsAnyUser(reviewId, userId) ==
    {r \in reviews : r.id = reviewId}

\* UPDATE reviews SET rating = $1, comment = $2 WHERE id = $3 AND user_id = $4
EditReviewRows(reviewId, userId) ==
    {r \in reviews : r.id = reviewId /\ r.user_id = userId}

EditReview(token, reviewId, rating, comment) ==
    IF CheckRole(token, "customer") # 0
    THEN /\ Respond("edit", Principal(token), NULL, NoText, NULL,
                    CheckRole(token, "customer"))
         /\ UNCHANGED <<dbVars, reqs, mw, readVars>>
    ELSE LET rows == EditReviewRows(reviewId, Principal(token)) IN
         IF rows = {}
         THEN /\ Respond("edit", Principal(token), reviewId, comment, rating, 404)
              /\ UNCHANGED <<dbVars, reqs, mw, readVars>>
         ELSE IF ~RatingCheck(rating)
         THEN /\ Respond("edit", Principal(token), reviewId, comment, rating, 500)
              /\ UNCHANGED <<dbVars, reqs, mw, readVars>>
         ELSE /\ reviews' = (reviews \ rows) \cup
                     {[r EXCEPT !.rating = rating, !.comment = comment] : r \in rows}
              /\ Respond("edit", Principal(token), reviewId, comment, rating, 200)
              /\ UNCHANGED <<vendors, vendor_branches, menu_items, offers,
                             favorites, review_likes, nextId, reqs, mw, readVars>>

(* ------------------------ DELETE /reviews/:reviewId ------------------- *)
\* The DELETE without its user_id condition: under it C28_AtomicEditDelete
\* fails.
DeleteReviewRowsAnyUser(reviewId, userId) ==
    {r \in reviews : r.id = reviewId}

\* DELETE FROM reviews WHERE id = $1 AND user_id = $2
DeleteReviewRows(reviewId, userId) ==
    {r \in reviews : r.id = reviewId /\ r.user_id = userId}

\* review_likes.review_id and review_replies.review_id REFERENCES reviews(id)
\* ON DELETE CASCADE
DeleteReview(token, reviewId) ==
    IF CheckRole(token, "customer") # 0
    THEN /\ Respond("delete", Principal(token), NULL, NoText, NULL,
                    CheckRole(token, "customer"))
         /\ UNCHANGED <<dbVars, reqs, mw, readVars>>
    ELSE LET rows == DeleteReviewRows(reviewId, Principal(token)) IN
         IF rows = {}
         THEN /\ Respond("delete", Principal(token), reviewId, NoText, NULL, 404)
              /\ UNCHANGED <<dbVars, reqs, mw, readVars>>
         ELSE /\ reviews' = reviews \ rows
              /\ review_likes' =
                    {l \in review_likes : \A r \in rows : l.review_id # r.id}
              /\ review_replies' =
                    {p \in review_replies : \A r \in rows : p.review_id # r.id}
              /\ Respond("delete", Principal(token), reviewId, NoText, NULL, 200)
              /\ UNCHANGED <<vendors, vendor_branches, menu_items, offers,
                             favorites, nextId, reqs, mw, now, listing>>

(* ----------------------- POST /reviews/:reviewId/like ----------------- *)
\* req.body.is_like: JSON true, false, or missing.
IsLikeInputs == {"true", "false", NoText}

\* The insert with ON CONFLICT DO NOTHING: under it C6_LikeUpsert fails.
LikeInsertOrIgnore(reviewId, userId, is_like) ==
    LET conflict == {l \in review_likes :
                        l.review_id = reviewId /\ l.user_id = userId} IN
    IF conflict = {}
    THEN review_likes \cup
            {[review_id |-> reviewId, user_id |-> userId, is_like |-> is_like]}
    ELSE review_likes

\* INSERT INTO review_likes (review_id, user_id, is_like) VALUES ($1, $2, $3)
\*   ON CONFLICT (review_id, user_id) DO UPDATE SET is_like = $3
LikeUpsert(reviewId, userId, is_like) ==
    LET conflict == {l \in review_likes :
                        l.review_id = reviewId /\ l.user_id = userId} IN
    IF conflict = {}
    THEN review_likes \cup
            {[review_id |-> reviewId, user_id |-> userId, is_like |-> is_like]}
    ELSE (review_likes \ conflict) \cup
            {[l EXCEPT !.is_like = is_like] : l \in conflict}

LikeReview(token, reviewId, is_like) ==
    IF CheckRole(token, "customer") # 0
    THEN /\ Respond("like", Principal(token), NULL, NoText, NULL,
                    CheckRole(token, "customer"))
         /\ UNCHANGED <<dbVars, reqs, mw, readVars>>
    ELSE IF \/ is_like = NoText
            \/ ~\E r \in reviews : r.id = reviewId
    THEN /\ Respond("like", Principal(token), reviewId, is_like, NULL, 500)
         /\ UNCHANGED <<dbVars, reqs, mw, readVars>>
    ELSE /\ review_likes' = LikeUpsert(reviewId, Principal(token), is_like)
         /\ Respond("like", Principal(token), reviewId, is_like, NULL, 200)
         /\ UNCHANGED <<vendors, vendor_branches, menu_items, offers,
                        favorites, reviews, nextId, reqs, mw, readVars>>

(* --------------------- POST /reviews/:reviewId/replies ---------------- *)
\* checkRole(['vendor', 'customer']): the required role is one array value.
\* Array.prototype.includes compares it with each element of the payload's
\* roles by SameValueZero, and an array is equal to no string: the value is
\* modelled as a string that is no role name (the text the 403 message
\* prints for it).
ReplyRequiredRole == "vendor,customer"
RoleRequiredError == "vendor,customer role required"
UnauthorizedVendorError == "Unauthorized vendor"

\* SELECT * FROM reviews WHERE id = $1
ReviewCheck(reviewId) == {r \in reviews : r.id = reviewId}

\* SELECT v.* FROM vendors v JOIN vendor_branches vb ON v.id = vb.vendor_id
\*   JOIN reviews r ON vb.id = r.branch_id WHERE r.id = $1 AND v.user_id = $2
ReplyVendorCheck(reviewId, userId) ==
    {v \in vendors :
        /\ v.user_id = userId
        /\ \E vb \in vendor_branches, r \in reviews :
              /\ v.id = vb.vendor_id
              /\ r.branch_id # NULL /\ vb.id = r.branch_id
              /\ r.id = reviewId}

ReplyCommentInputs == CommentInputs \cup {NoText}
ReplyTokens == {"<none>", "<forged>", "vendorA", "vendorC", "customer1",
                "customer2", "admin"}

\* The whole handler: its statements after the role gate only read, up to
\* the INSERT (review_replies.comment is NOT NULL).
ReplyReview(token, reviewId, comment) ==
    IF CheckRole(token, ReplyRequiredRole) # 0
    THEN /\ Respond("reply", Principal(token), reviewId,
                    IF CheckRole(token, ReplyRequiredRole) = 403
                    THEN RoleRequiredError ELSE NoText,
                    NULL, CheckRole(token, ReplyRequiredRole))
         /\ UNCHANGED <<dbVars, reqs, mw, readVars>>
    ELSE IF ReviewCheck(reviewId) = {}
    THEN /\ Respond("reply", Principal(token), reviewId, comment, NULL, 404)
         /\ UNCHANGED <<dbVars, reqs, mw, readVars>>
    ELSE IF /\ RolesInclude(UserRoles(token), "vendor")
            /\ ReplyVendorCheck(reviewId, Principal(token)) = {}
    THEN /\ Respond("reply", Principal(token), reviewId,
                    UnauthorizedVendorError, NULL, 403)
         /\ UNCHANGED <<dbVars, reqs, mw, readVars>>
    ELSE IF comment = NoText
    THEN /\ Respond("reply", Principal(token), reviewId, comment, NULL, 500)
         /\ UNCHANGED <<dbVars, reqs, mw, readVars>>
    ELSE /\ Cardinality(review_replies) < MaxReplies
         /\ review_replies' = review_replies \cup
               {[id |-> Cardinality(review_replies) + 1,
                 review_id |-> reviewId, user_id |-> Principal(token),
                 comment |-> comment]}
         /\ Respond("reply", Principal(token), reviewId, comment, NULL, 200)
         /\ UNCHANGED <<dbVars, reqs, mw, now, listing>>

(* ---------------------------- notifyConsumers ------------------------- *)
\* Every writing handler runs `await notifyConsumers(row, type)` between its
\* write and its res.json.  notifyConsumers awaits axios.post(url, ...) for
\* its one webhook URL, without a timeout, and catches what it throws.  The
\* actions above take the subscriber to answer at once; the actions below
\* keep the request in flight (pc "notify") from the write until the
\* subscriber has answered.
WebhookOutcomes == {"delivered", "failed"}

\* A notifyConsumers that lets a failed delivery through to the handler:
\* under it C13_DeliveryFailureSwallowed fails.
NotifyConsumersRethrows(outcome) == outcome = "failed"

\* The catch block inside the loop logs every error of axios.post: nothing is
\* thrown to the handler, whose own catch would answer 500.
NotifyConsumersThrows(outcome) == FALSE

\* POST /vendors/register up to its await of notifyConsumers.
RegisterVendorAwaitNotify(s, token) ==
    /\ reqs[s].pc = "idle"
    /\ IF CheckRole(token, "vendor") # 0
       THEN /\ Respond("register", Principal(token), NULL, NoText, NULL,
                       CheckRole(token, "vendor"))
            /\ UNCHANGED <<dbVars, reqs, mw, readVars>>
       ELSE /\ Cardinality(vendors) < MaxVendors
            /\ LET id == Cardinality(vendors) + 1 IN
               /\ vendors' = vendors \cup
                     {[id |-> id, user_id |-> Principal(token),
                       registration_status |-> "pending"]}
               /\ reqs' = [reqs EXCEPT ![s] =
                      [IdleReq EXCEPT !.op = "register",
                                      !.user = Principal(token),
                                      !.target = id, !.pc = "notify"]]
            /\ UNCHANGED <<vendor_branches, menu_items, offers, favorites,
                           reviews, review_likes, nextId, resp, mw, readVars>>

\* INSERT INTO vendor_branches up to the await of notifyConsumers.
CreateBranchInsertAwaitNotify(s) ==
    /\ reqs[s].op = "branch"
    /\ reqs[s].pc = "insert"
    /\ Cardinality(vendor_branches) < MaxBranches
    /\ LET id == Cardinality(vendor_branches) + 1 IN
       /\ vendor_branches' = vendor_branches \cup
             {[id |-> id, vendor_id |-> reqs[s].vendorId,
               created_by |-> reqs[s].user]}
       /\ reqs' = [reqs EXCEPT ![s].target = id, ![s].pc = "notify"]
    /\ UNCHANGED <<vendors, menu_items, offers, favorites, reviews,
                   review_likes, nextId, resp, mw, readVars>>

\* The subscriber answers (or the connection fails): axios.post settles,
\* notifyConsumers returns and the handler sends the written row.  The
\* response records the id of that row and the outcome of the delivery.
NotifyConsumers(s, outcome) ==
    /\ reqs[s].pc = "notify"
    /\ Respond(reqs[s].op, reqs[s].user, reqs[s].target, outcome, NULL,
               IF NotifyConsumersThrows(outcome) THEN 500 ELSE 200)
    /\ reqs' = [reqs EXCEPT ![s] = IdleReq]
    /\ UNCHANGED <<dbVars, mw, readVars>>

(* ----------------------------- validateToken ------------------------ *)
\* Bearer tokens a client may present: one issued to a user, or garbage.
BearerTokens == {"vendorA", "customer1", "admin", "garbage"}

\* Authorization headers: none, one that does not start with 'Bearer ',
\* 'Bearer ' with nothing after it, and 'Bearer <token>'.
HeaderInputs == {"<absent>", "<basic>", "<bearer-empty>", "<bearer-token>"}

\* The role the auth service's payload carries for a token it issued.
PayloadRole(token) ==
    CASE token = "vendorA" -> "vendor"
      [] token = "customer1" -> "customer"
      [] token = "admin" -> "admin"
      [] OTHER -> NoText

\* What axios.post(AUTH_VALIDATE_ENDPOINT) can end with: an HTTP answer (2xx
\* resolves, any other status rejects with error.response set), a refused
\* connection (error.code ECONNREFUSED), a timeout after 5 s (ECONNABORTED),
\* or another network error (ENOTFOUND, ECONNRESET).  The service reports
\* valid only for a token it issued.
AnswerStatuses == {200, 204, 400, 401, 403, 500, 503}
AuthAnswers(token) ==
    {[kind |-> "response", status |-> st, valid |-> v] :
        st \in AnswerStatuses,
        v \in IF token = "garbage" THEN {FALSE} ELSE BOOLEAN}
    \cup {[kind |-> k, status |-> 0, valid |-> FALSE] :
            k \in {"refused", "timeout", "network"}}

\* axios resolves a 2xx answer and rejects every other one.
Resolves(answer) ==
    answer.kind = "response" /\ answer.status >= 200 /\ answer.status < 300

\* A role gate that, like checkRole, looks for the argument itself among the
\* roles: under it C20_RequireRole fails.
RequireRoleNoArray(user, required) ==
    IF user = NoPrincipal THEN 401
    ELSE IF required.array \/ user.role # required.single THEN 403
    ELSE 0

\* Array.isArray(requiredRoles) ? requiredRoles : [requiredRoles]
RolesOf(required) ==
    IF required.array THEN required.roles ELSE {required.single}

\* requireRole(requiredRoles): the status it answers with, or 0 when it
\* calls next().
RequireRole(user, required) ==
    IF user = NoPrincipal THEN 401
    ELSE LET roles == RolesOf(required) IN
         IF user.role \notin roles THEN 403 ELSE 0

\* Roles a route requires: a single role, or an array of roles.
RequiredRolesInputs ==
    {[array |-> FALSE, single |-> "vendor", roles |-> {}],
     [array |-> FALSE, single |-> "admin", roles |-> {}],
     [array |-> TRUE, single |-> NoText, roles |-> {"vendor", "customer"}]}

\* req.user as an earlier middleware left it: unset, or {uid, role}.
PrincipalInputs ==
    {NoPrincipal} \cup
    {[uid |-> t, role |-> PayloadRole(t)] : t \in {"vendorA", "customer1", "admin"}}

\* requireRole called on a request whatever middleware ran before it.
RequireRoleCall(user, required) ==
    /\ mw.pc # "awaitAuth"
    /\ mw' = [IdleMw EXCEPT !.pc = "roleChecked", !.user = user,
                            !.required = required,
                            !.status = RequireRole(user, required),
                            !.handled = (RequireRole(user, required) = 0)]
    /\ UNCHANGED <<dbVars, reqs, resp, readVars>>

\* validateToken up to its await: the header checks.
ValidateTokenStart(header, token, required) ==
    /\ mw.pc # "awaitAuth"
    /\ IF header \in {"<absent>", "<basic>", "<bearer-empty>"}
       THEN mw' = [IdleMw EXCEPT !.pc = "done", !.header = header,
                                 !.required = required, !.status = 401]
       ELSE mw' = [IdleMw EXCEPT !.pc = "awaitAuth", !.header = header,
                                 !.token = token, !.required = required]
    /\ UNCHANGED <<dbVars, reqs, resp, readVars>>

\* The status validateToken sends for an answer of the auth service, or 0
\* when it attaches req.user and calls next().
ValidateTokenStatus(answer) ==
    IF Resolves(answer)
    THEN IF answer.status = 200 /\ answer.valid THEN 0 ELSE 401
    ELSE IF answer.kind = "refused" THEN 503
    ELSE IF answer.kind = "response" THEN answer.status
    ELSE 500

\* The auth service's answer arrives; on success next() runs requireRole and
\* then the route's handler.
ValidateTokenAnswer(answer) ==
    /\ mw.pc = "awaitAuth"
    /\ IF ValidateTokenStatus(answer) = 0
       THEN LET user == [uid |-> mw.token, role |-> PayloadRole(mw.token)] IN
            mw' = [mw EXCEPT !.pc = "done", !.answer = answer, !.user = user,
                             !.nextCalls = mw.nextCalls + 1,
                             !.status = RequireRole(user, mw.required),
                             !.handled = (RequireRole(user, mw.required) = 0)]
       ELSE mw' = [mw EXCEPT !.pc = "done", !.answer = answer,
                             !.status = ValidateTokenStatus(answer)]
    /\ UNCHANGED <<dbVars, reqs, resp, readVars>>

(* ----------------------------- optionalAuth ------------------------- *)
\* An attachment test that takes any resolved answer as a confirmation:
\* under it C21_OptionalAuth fails.
OptionalAuthAttachesAnyAnswer(answer) == Resolves(answer)

\* response.status === 200 && response.data.valid, on a resolved answer;
\* a rejected call lands in the inner catch, which attaches nothing.
OptionalAuthAttaches(answer) ==
    Resolves(answer) /\ answer.status = 200 /\ answer.valid

\* optionalAuth up to its await: without a bearer token it calls next() at
\* once.
OptionalAuthStart(header, token) ==
    /\ mw.pc # "optAwait"
    /\ IF header \in {"<absent>", "<basic>", "<bearer-empty>"}
       THEN mw' = [IdleMw EXCEPT !.pc = "optDone", !.header = header,
                                 !.nextCalls = 1, !.handled = TRUE]
       ELSE mw' = [IdleMw EXCEPT !.pc = "optAwait", !.header = header,
                                 !.token = token]
    /\ UNCHANGED <<dbVars, reqs, resp, readVars>>

\* The auth service's answer arrives: req.user is attached on a
\* confirmation, and next() is called whatever the answer.
OptionalAuthAnswer(answer) ==
    /\ mw.pc = "optAwait"
    /\ LET user == IF OptionalAuthAttaches(answer)
                   THEN [uid |-> mw.token, role |-> PayloadRole(mw.token)]
                   ELSE mw.user IN
       mw' = [mw EXCEPT !.pc = "optDone", !.answer = answer, !.user = user,
                        !.nextCalls = mw.nextCalls + 1, !.handled = TRUE]
    /\ UNCHANGED <<dbVars, reqs, resp, readVars>>

(* -------------------------- requireVendorAccess --------------------- *)
\* req.user as an earlier middleware left it, for either of two vendors.
VendorAccessPrincipals ==
    PrincipalInputs \cup {[uid |-> "vendorC", role |-> "vendor"]}

\* req.params.vendorId || req.body.vendorId
NamedVendorId(paramsVendorId, bodyVendorId) ==
    IF paramsVendorId # NULL THEN paramsVendorId ELSE bodyVendorId

\* requireVendorAccess: the status it answers with, or 0 when it calls
\* next().  With a vendorId it only logs: no statement reads vendors.
RequireVendorAccess(user, vendorId) ==
    IF user = NoPrincipal THEN 401
    ELSE IF user.role # "vendor" THEN 403
    ELSE 0

\* requireVendorAccess called on a request whatever middleware ran before.
RequireVendorAccessCall(user, paramsVendorId, bodyVendorId) ==
    /\ mw.pc # "optAwait"
    /\ LET status == RequireVendorAccess(
                         user, NamedVendorId(paramsVendorId, bodyVendorId)) IN
       mw' = [IdleMw EXCEPT !.pc = "vendorAccessChecked", !.user = user,
                            !.paramsVendorId = paramsVendorId,
                            !.bodyVendorId = bodyVendorId,
                            !.status = status, !.handled = (status = 0)]
    /\ UNCHANGED <<dbVars, reqs, resp, readVars>>

(* --------------------------- specification ---------------------------- *)
\* The path ids and body fields of a request checkRole rejects are never
\* read: such a request is enumerated once, not once per value.
ReadBy(token, requiredRole, inputs, unread) ==
    IF CheckRole(token, requiredRole) = 0 THEN inputs ELSE {unread}

Next ==
    \/ \E t \in VendorSideTokens : RegisterVendor(t)
    \/ \E t \in VendorSideTokens :
       \E v \in ReadBy(t, "admin", VendorIdInputs, NULL),
          st \in ReadBy(t, "admin", StatusInputs, NoText) :
          ApproveVendor(t, v, st)
    \/ \E s \in Slots :
        \/ \E t \in VendorSideTokens :
           \E v \in ReadBy(t, "vendor", VendorIdInputs, NULL) :
              CreateBranchCheck(s, t, v)
        \/ CreateBranchInsert(s)
        \/ \E t \in VendorSideTokens :
           \E v \in ReadBy(t, "vendor", VendorIdInputs, NULL),
              b \in ReadBy(t, "vendor", BranchIdInputs, NULL) :
              CreateMenuItemVendorCheck(s, t, v, b)
        \/ \E t \in VendorSideTokens :
           \E v \in ReadBy(t, "vendor", VendorIdInputs, NULL),
              b \in ReadBy(t, "vendor", BranchIdInputs, NULL) :
              CreateOfferVendorCheck(s, t, v, b,
                                     [start_date |-> 1, end_date |-> 2])
        \/ CreateBranchCheckStep(s)
        \/ CreateMenuItemInsert(s)
        \/ CreateOfferInsert(s)

Spec == Init /\ [][Next]_vars

\* The customer-side endpoints, over a catalogue the vendor-side endpoints
\* have built: vendorA's approved vendor with one branch and one menu item.
InitCatalogue ==
    /\ vendors = {[id |-> 1, user_id |-> "vendorA",
                   registration_status |-> "approved"]}
    /\ vendor_branches = {[id |-> 1, vendor_id |-> 1, created_by |-> "vendorA"]}
    /\ menu_items = {[id |-> 1, branch_id |-> 1, created_by |-> "vendorA"]}
    /\ offers = {}
    /\ favorites = {}
    /\ reviews = {}
    /\ review_likes = {}
    /\ nextId = 1
    /\ reqs = [s \in Slots |-> IdleReq]
    /\ resp = NoResp
    /\ mw = IdleMw
    /\ review_replies = {}
    /\ now = 0
    /\ listing = {}

\* Favorites and review creation: every combination of reference fields and
\* type, and every rating on a branch review.
NextCustomer ==
    \/ \E t \in CustomerSideTokens :
       \E body \in ReadBy(t, "customer", FavoriteBodies, UnreadBody) :
          AddFavorite(t, body)
    \/ \E t \in CustomerSideTokens :
       \E body \in ReadBy(t, "customer", ReviewBodies, UnreadBody) :
          PostReview(t, body)

SpecCustomer == InitCatalogue /\ [][NextCustomer]_vars

\* The life of a review: creation, edit, delete and likes.
NextReviews ==
    \/ \E t \in CustomerSideTokens :
       \E body \in ReadBy(t, "customer", BranchReviewBodies, UnreadBody) :
          PostReview(t, body)
    \/ \E t \in CustomerSideTokens :
       \E r \in ReadBy(t, "customer", ReviewIdInputs, NULL),
          rating \in ReadBy(t, "customer", RatingInputs, NULL),
          c \in ReadBy(t, "customer", CommentInputs, NoText) :
          EditReview(t, r, rating, c)
    \/ \E t \in CustomerSideTokens :
       \E r \in ReadBy(t, "customer", ReviewIdInputs, NULL) :
          DeleteReview(t, r)
    \/ \E t \in CustomerSideTokens :
       \E r \in ReadBy(t, "customer", ReviewIdInputs, NULL),
          l \in ReadBy(t, "customer", IsLikeInputs, NoText) :
          LikeReview(t, r, l)

SpecReviews == InitCatalogue /\ [][NextReviews]_vars

\* Replies to reviews of every type.
NextReplies ==
    \/ \E t \in CustomerSideTokens :
       \E body \in ReadBy(t, "customer", ReviewBodies, UnreadBody) :
          PostReview(t, body)
    \/ \E t \in ReplyTokens, r \in ReviewIdInputs, c \in ReplyCommentInputs :
          ReplyReview(t, r, c)

SpecReplies == InitCatalogue /\ [][NextReplies]_vars

\* Registration and branch creation with the webhook delivery in flight, on
\* a store that holds vendorA's approved vendor.
InitApproved ==
    /\ vendors = {[id |-> 1, user_id |-> "vendorA",
                   registration_status |-> "approved"]}
    /\ vendor_branches = {}
    /\ menu_items = {}
    /\ offers = {}
    /\ favorites = {}
    /\ reviews = {}
    /\ review_likes = {}
    /\ nextId = 1
    /\ reqs = [s \in Slots |-> IdleReq]
    /\ resp = NoResp
    /\ mw = IdleMw
    /\ review_replies = {}
    /\ now = 0
    /\ listing = {}

NextNotify ==
    \E s \in Slots :
       \/ \E t \in VendorSideTokens : RegisterVendorAwaitNotify(s, t)
       \/ \E t \in VendorSideTokens :
          \E v \in ReadBy(t, "vendor", VendorIdInputs, NULL) :
             CreateBranchCheck(s, t, v)
       \/ CreateBranchInsertAwaitNotify(s)
       \/ \E o \in WebhookOutcomes : NotifyConsumers(s, o)

SpecNotify == InitApproved /\ [][NextNotify]_vars

\* The store answers every statement; the handler's own steps are taken.
\* Nothing makes a subscriber answer: axios.post is called without a timeout.
FairSpecNotify ==
    /\ InitApproved
    /\ [][NextNotify]_vars
    /\ \A s \in Slots : WF_vars(CreateBranchInsertAwaitNotify(s))

\* Offers: the store holds two approved vendors with a branch each and up to
\* MaxOffers offers, any rows the table's constraints admit (the offers
\* route cannot insert one, see CreateOfferInsert); time passes.
OfferSeedRows ==
    {o \in [id : 1..MaxOffers, branch_id : {1, 2},
            created_by : {"vendorA", "vendorC"},
            start_date : 1..MaxDate, end_date : 1..MaxDate] :
        /\ OfferDatesNotNull(o)
        /\ ValidDates(o)
        /\ o.created_by = (IF o.branch_id = 1 THEN "vendorA" ELSE "vendorC")}

InitOffers ==
    /\ vendors = {[id |-> 1, user_id |-> "vendorA",
                   registration_status |-> "approved"],
                  [id |-> 2, user_id |-> "vendorC",
                   registration_status |-> "approved"]}
    /\ vendor_branches = {[id |-> 1, vendor_id |-> 1, created_by |-> "vendorA"],
                          [id |-> 2, vendor_id |-> 2, created_by |-> "vendorC"]}
    /\ menu_items = {}
    /\ offers \in {rows \in SUBSET OfferSeedRows :
                      \A o, q \in rows : o.id = q.id => o = q}
    /\ favorites = {}
    /\ reviews = {}
    /\ review_likes = {}
    /\ nextId = 1
    /\ reqs = [s \in Slots |-> IdleReq]
    /\ resp = NoResp
    /\ mw = IdleMw
    /\ review_replies = {}
    /\ now = 0
    /\ listing = {}

OfferTokens == {"<none>", "vendorA", "customer1"}

NextOffers ==
    \/ \E s \in Slots :
        \/ \E t \in OfferTokens :
           \E v \in ReadBy(t, "vendor", VendorIdInputs, NULL),
              b \in ReadBy(t, "vendor", BranchIdInputs, NULL),
              body \in ReadBy(t, "vendor", OfferBodies, UnreadOfferBody) :
              CreateOfferVendorCheck(s, t, v, b, body)
        \/ CreateBranchCheckStep(s)
        \/ CreateOfferInsert(s)
    \/ \E b \in BranchIdInputs : GetOffers(b)
    \/ Tick

SpecOffers == InitOffers /\ [][NextOffers]_vars

\* The menu listing, on a store that holds two branches and their menu items
\* with the columns the listing reads.
MenuSeedRows ==
    {[id |-> 1, branch_id |-> 1, created_by |-> "vendorA",
      name |-> "Ab", description |-> "cd", price |-> 1],
     [id |-> 2, branch_id |-> 1, created_by |-> "vendorA",
      name |-> "cd", description |-> "b%", price |-> 3],
     [id |-> 3, branch_id |-> 2, created_by |-> "vendorC",
      name |-> "Ab", description |-> "Ab", price |-> 2]}

InitMenu ==
    /\ vendors = {[id |-> 1, user_id |-> "vendorA",
                   registration_status |-> "approved"],
                  [id |-> 2, user_id |-> "vendorC",
                   registration_status |-> "approved"]}
    /\ vendor_branches = {[id |-> 1, vendor_id |-> 1, created_by |-> "vendorA"],
                          [id |-> 2, vendor_id |-> 2, created_by |-> "vendorC"]}
    /\ menu_items \in SUBSET MenuSeedRows
    /\ offers = {}
    /\ favorites = {}
    /\ reviews = {}
    /\ review_likes = {}
    /\ nextId = 1
    /\ reqs = [s \in Slots |-> IdleReq]
    /\ resp = NoResp
    /\ mw = IdleMw
    /\ review_replies = {}
    /\ now = 0
    /\ listing = {}

NextMenu ==
    \E b \in BranchIdInputs, search \in SearchInputs,
       minPrice \in PriceInputs, maxPrice \in PriceInputs :
       GetMenu(b, search, minPrice, maxPrice)

SpecMenu == InitMenu /\ [][NextMenu]_vars

\* A route guarded by validateToken and requireRole.
NextAuth ==
    \/ \E h \in HeaderInputs :
       \E t \in IF h = "<bearer-token>" THEN BearerTokens ELSE {NoText},
          r \in RequiredRolesInputs :
          ValidateTokenStart(h, t, r)
    \/ \E a \in AuthAnswers(mw.token) : ValidateTokenAnswer(a)
    \/ \E u \in PrincipalInputs, r \in RequiredRolesInputs :
          RequireRoleCall(u, r)

SpecAuth == Init /\ [][NextAuth]_vars

\* Routes guarded by optionalAuth or by requireVendorAccess, on a store that
\* holds vendorA's approved vendor.
NextAccess ==
    \/ \E h \in HeaderInputs :
       \E t \in IF h = "<bearer-token>" THEN BearerTokens ELSE {NoText} :
          OptionalAuthStart(h, t)
    \/ \E a \in AuthAnswers(mw.token) : OptionalAuthAnswer(a)
    \/ \E u \in VendorAccessPrincipals :
       \E pv \in {NULL} \cup VendorIdInputs, bv \in {NULL} \cup VendorIdInputs :
          RequireVendorAccessCall(u, pv, bv)

SpecAccess == InitApproved /\ [][NextAccess]_vars

(* ======================= properties: vendor side ======================= *)
\* vendorOwnsAndApproved of the specification: the vendor exists, the user
\* owns it and it is approved, in the current state of the store.
OwnsApprovedVendor(vendorId, user) ==
    \E v \in vendors : /\ v.id = vendorId
                       /\ v.user_id = user
                       /\ v.registration_status = "approved"

C1_Step ==
    /\ \A s \in Slots :
          (reqs[s].pc = "idle" /\ reqs'[s].op = "branch")
             => OwnsApprovedVendor(reqs'[s].vendorId, reqs'[s].user)
    /\ (resp' # resp /\ resp'.op = "branch" /\ "vendor" \in UserRoles(resp'.user))
          => /\ resp'.status \in {200, 403}
             /\ resp'.status = 403
                   => /\ ~OwnsApprovedVendor(resp'.target, resp'.user)
                      /\ vendor_branches' = vendor_branches
             /\ resp'.status = 200
                   => \E b \in vendor_branches' \ vendor_branches :
                         b.vendor_id = resp'.target
    /\ vendor_branches' # vendor_branches
          => \E s \in Slots :
                /\ reqs[s].op = "branch" /\ reqs[s].pc = "insert"
                /\ resp'.op = "branch" /\ resp'.status = 200
                /\ \A b \in vendor_branches' \ vendor_branches :
                      b.vendor_id = reqs[s].vendorId /\ b.created_by = reqs[s].user
                /\ vendor_branches \subseteq vendor_branches'

C8_Placement ==
    \A m \in menu_items \cup offers :
       \E b \in vendor_branches, v \in vendors :
          b.id = m.branch_id /\ v.id = b.vendor_id /\ v.user_id = m.created_by

C8_Step ==
    /\ \A s \in Slots :
          (reqs[s].pc = "idle" /\ reqs'[s].op \in {"menu", "offer"})
             => OwnsApprovedVendor(reqs'[s].vendorId, reqs'[s].user)
    /\ \A s \in Slots :
          (reqs[s].pc = "branchCheck" /\ reqs'[s].pc = "insert")
             => \E b \in vendor_branches :
                   b.id = reqs[s].branchId /\ b.vendor_id = reqs[s].vendorId
    /\ (menu_items' # menu_items \/ offers' # offers)
          => \E s \in Slots :
                /\ reqs[s].op \in {"menu", "offer"} /\ reqs[s].pc = "insert"
                /\ \A m \in (menu_items' \ menu_items) \cup (offers' \ offers) :
                      m.branch_id = reqs[s].branchId /\ m.created_by = reqs[s].user
                /\ menu_items \subseteq menu_items' /\ offers \subseteq offers'
    /\ ( /\ resp' # resp /\ resp'.op \in {"menu", "offer"}
         /\ \E v \in vendors : v.id = resp'.target /\ v.user_id # resp'.user )
          => /\ resp'.status = 403
             /\ menu_items' = menu_items /\ offers' = offers

\* C8: a menu item or an offer is inserted under branch B through
\* /vendors/V/branches/B/... only by a request whose requester owned V with V
\* approved at its ownership check and for which B was a branch of V; a
\* requester who does not own V is answered 403 and inserts nothing; every
\* stored menu item and offer sits under a branch of a vendor owned by the
\* user who created it.
C8_OwnedPlacement == [][C8_Step]_vars /\ []C8_Placement

C8_Witness ==
    /\ resp.op = "menu" /\ resp.status = 200
    /\ \E m \in menu_items : m.branch_id = resp.num /\ m.created_by = resp.user

(* ====================== properties: customer side ====================== *)
RefFields == {"branch_id", "menu_item_id", "offer_id"}
NonNullRefs(row) == {f \in RefFields : row[f] # NULL}
\* The reference field a type names.
NamedRef(type) ==
    CASE type = "branch" -> "branch_id"
      [] type = "menu_item" -> "menu_item_id"
      [] type = "offer" -> "offer_id"
      [] type = "overall" -> "branch_id"
      [] OTHER -> "none"

\* C2: every stored favorite and every stored review has exactly one of
\* branch_id, menu_item_id, offer_id non-null, the one its type names
\* ('overall', for reviews only, names branch_id); no favorite is 'overall'.
C2_ExactlyOneReference ==
    /\ \A f \in favorites :
          /\ f.type \in {"branch", "menu_item", "offer"}
          /\ NonNullRefs(f) = {NamedRef(f.type)}
    /\ \A r \in reviews :
          /\ r.type \in {"branch", "menu_item", "offer", "overall"}
          /\ NonNullRefs(r) = {NamedRef(r.type)}

C2_Witness ==
    /\ \E f \in favorites : f.type = "menu_item"
    /\ \E r \in reviews : r.type = "overall"

\* The statuses a ValidationError is sent with.
ValidationErrorStatuses == {400, 422}
\* The body of the request resp answers, as a row.
RespBody ==
    [branch_id |-> resp.refs[1], menu_item_id |-> resp.refs[2],
     offer_id |-> resp.refs[3], type |-> resp.arg]
RespRefsMatchType ==
    /\ resp.arg \in IF resp.op = "favorite"
                    THEN {"branch", "menu_item", "offer"}
                    ELSE {"branch", "menu_item", "offer", "overall"}
    /\ NonNullRefs(RespBody) = {NamedRef(resp.arg)}

\* C3: a POST /favorites or POST /reviews whose reference fields do not
\* match its type is answered with a ValidationError by the application (the
\* store is not asked to insert the row).
C3_MismatchIsValidationError ==
    ( /\ resp.op \in {"favorite", "review"}
      /\ resp.status \notin {401, 403}
      /\ ~RespRefsMatchType )
       => resp.status \in ValidationErrorStatuses

\* C4: POST /reviews with a rating that is an integer outside 1..5 is
\* answered with a ValidationError.
C4_RatingIsValidationError ==
    ( /\ resp.op = "review"
      /\ resp.status \notin {401, 403}
      /\ resp.num # NULL /\ resp.num \notin 1..5 )
       => resp.status \in ValidationErrorStatuses

\* C5: no two favorite rows have the same user, the same type and the same
\* target.
C5_FavoriteOnce ==
    \A f, g \in favorites :
       ( /\ f.user_id = g.user_id /\ f.type = g.type
         /\ f.branch_id = g.branch_id /\ f.menu_item_id = g.menu_item_id
         /\ f.offer_id = g.offer_id )
          => f.id = g.id

(* ========================= properties: reviews ========================= *)
C6_OneRow ==
    \A l, m \in review_likes :
       (l.review_id = m.review_id /\ l.user_id = m.user_id) => l = m

C6_Step ==
    \* a like call on an existing review with a boolean is answered 200 ...
    /\ ( /\ resp'.op = "like" /\ resp'.status \notin {401, 403}
         /\ resp'.arg \in {"true", "false"}
         /\ \E r \in reviews : r.id = resp'.target )
          => resp'.status = 200
    \* ... and leaves the pair's row holding the value of this call
    /\ (resp'.op = "like" /\ resp'.status = 200)
          => \E l \in review_likes' :
                /\ l.review_id = resp'.target /\ l.user_id = resp'.user
                /\ l.is_like = resp'.arg
    \* a row changes only by a like call of its user on its review, and
    \* goes only with its review
    /\ \A l \in review_likes :
          l \notin review_likes'
             => \/ /\ resp'.op = "like" /\ resp'.status = 200
                   /\ resp'.user = l.user_id /\ resp'.target = l.review_id
                \/ ~\E r \in reviews' : r.id = l.review_id
    /\ \A l \in review_likes' \ review_likes :
          /\ resp'.op = "like" /\ resp'.status = 200
          /\ resp'.user = l.user_id /\ resp'.target = l.review_id

\* C6: review_likes holds at most one row per (review, user) pair, whose
\* is_like is the value of the latest like call of that user on that review:
\* a call on an existing review succeeds, leaves the row holding its value,
\* and nothing else changes the row.
C6_LikeUpsert == []C6_OneRow /\ [][C6_Step]_vars

C6_Witness ==
    /\ resp.op = "like" /\ resp.status = 200 /\ resp.arg = "false"
    /\ \E l, m \in review_likes :
          /\ l.review_id = m.review_id /\ l.user_id # m.user_id
          /\ l.is_like = "false" /\ m.is_like = "true"

C7_Step ==
    /\ \A r \in reviews :
          r \notin reviews'
             => /\ resp'.op \in {"edit", "delete"} /\ resp'.status = 200
                /\ resp'.user = r.user_id /\ resp'.target = r.id
    /\ ( /\ resp'.op \in {"edit", "delete"}
         /\ \E r \in reviews : r.id = resp'.target /\ r.user_id # resp'.user )
          => reviews' = reviews /\ resp'.status # 200

\* C7: PUT and DELETE /reviews/:reviewId change or remove a review only when
\* the requester is its author; a request by any other user leaves every
\* stored review unchanged.
C7_AuthorOnly == [][C7_Step]_vars

C7_Witness ==
    /\ resp.op \in {"edit", "delete"} /\ resp.status = 404
    /\ \E r \in reviews : r.id = resp.target /\ r.user_id # resp.user

(* ========================== properties: tokens ========================= *)
\* The auth service is unreachable or fails: no connection, no answer in
\* time, another network error, or a server-error answer.
AuthServiceFailed(answer) ==
    \/ answer.kind \in {"refused", "timeout", "network"}
    \/ answer.kind = "response" /\ answer.status >= 500

\* C9: when the auth service is unreachable or fails, the call is answered
\* 503, never 401, and the request does not proceed.
C9_FailureIsUnavailable ==
    (mw.pc = "done" /\ AuthServiceFailed(mw.answer))
       => mw.status = 503 /\ mw.nextCalls = 0 /\ ~mw.handled

\* The auth service confirmed the token / reported it invalid.
ConfirmedValid(answer) ==
    answer.kind = "response" /\ answer.status = 200 /\ answer.valid
ReportedInvalid(answer) ==
    /\ answer.kind = "response"
    /\ \/ answer.status = 200 /\ ~answer.valid
       \/ answer.status >= 400 /\ answer.status < 500

\* C10: validateToken calls next (once, with {uid, role} attached) exactly
\* when the auth service confirmed the token; a missing token or a token the
\* auth service reports invalid is answered 401 and next is not called.
C10_ThreeOutcomes ==
    mw.pc = "done"
       => /\ mw.nextCalls = (IF ConfirmedValid(mw.answer) THEN 1 ELSE 0)
          /\ mw.nextCalls = 1
                => mw.user = [uid |-> mw.token, role |-> PayloadRole(mw.token)]
          /\ (mw.header # "<bearer-token>" \/ ReportedInvalid(mw.answer))
                => mw.status = 401 /\ mw.nextCalls = 0

(* ========================= properties: approval ======================== *)
\* C15: when PUT /vendors/:vendorId/approve reports success the vendor's
\* registration_status is 'approved' or 'rejected' (a request carrying any
\* other status value leaves the status as it was, so does not get there).
C15_ApprovedOrRejected ==
    (resp.op = "approve" /\ resp.status = 200)
       => \A v \in vendors :
             v.id = resp.target
                => v.registration_status \in {"approved", "rejected"}

C16_Step ==
    /\ \A w \in vendors' :
          (~\E v \in vendors : v.id = w.id) => w.registration_status = "pending"
    /\ \A v \in vendors :
          /\ \E w \in vendors' : w.id = v.id
          /\ \A w \in vendors' :
                (w.id = v.id /\ w.registration_status # v.registration_status)
                   => /\ resp'.op = "approve" /\ resp'.status = 200
                      /\ resp'.target = v.id
                      /\ "admin" \in UserRoles(resp'.user)

\* C16: a vendor is created with registration_status 'pending', and its
\* registration_status changes only in a step of PUT .../approve performed
\* by an authenticated admin-role user.
C16_StatusByAdminOnly == [][C16_Step]_vars

C16_Witness ==
    /\ resp.op = "approve" /\ resp.status = 200 /\ resp.user = "admin"
    /\ \E v \in vendors :
          v.id = resp.target /\ v.registration_status = "approved"
    /\ \E v \in vendors : v.registration_status = "pending"

(* ========================= properties: replies ========================= *)
\* C11: the role gate of POST /reviews/:reviewId/replies lets every
\* authenticated user through whose roles include 'vendor' or 'customer':
\* its Forbidden answer goes only to users holding neither role.
C11_ReplyGate ==
    ( /\ resp.op = "reply" /\ resp.user # NoUser
      /\ resp.status = 403 /\ resp.arg = RoleRequiredError )
       => UserRoles(resp.user) \cap {"vendor", "customer"} = {}

\* The requester wrote the review, or owns the vendor of the branch the
\* review is about.
AuthorOrOwner(reviewId, user) ==
    \E r \in reviews :
       /\ r.id = reviewId
       /\ \/ r.user_id = user
          \/ \E vb \in vendor_branches, v \in vendors :
                /\ r.branch_id # NULL /\ vb.id = r.branch_id
                /\ v.id = vb.vendor_id /\ v.user_id = user

C12_Step ==
    /\ \A p \in review_replies' \ review_replies :
          /\ AuthorOrOwner(p.review_id, p.user_id)
          /\ resp'.op = "reply" /\ resp'.status = 200
          /\ resp'.user = p.user_id /\ resp'.target = p.review_id
    /\ (resp'.op = "reply" /\ ~AuthorOrOwner(resp'.target, resp'.user))
          => /\ resp'.status >= 400
             /\ review_replies' = review_replies

WrittenRowStored(r) ==
    \/ r.op = "register" /\ \E v \in vendors : v.id = r.target
    \/ r.op = "branch" /\ \E b \in vendor_branches : b.id = r.target

C13_Written ==
    \A s \in Slots : reqs[s].pc = "notify" => WrittenRowStored(reqs[s])

C13_Step ==
    \A s \in Slots :
       (reqs[s].pc = "notify" /\ reqs'[s].pc # "notify")
          => /\ resp'.op = reqs[s].op /\ resp'.target = reqs[s].target
             /\ resp'.status = 200
             /\ WrittenRowStored(reqs[s])
             /\ dbVars' = dbVars

\* C13: once the write of a notifying endpoint has succeeded, the request is
\* answered with success and the written row stays stored, whether the
\* webhook delivery succeeded or failed.
C13_DeliveryFailureSwallowed == []C13_Written /\ [][C13_Step]_vars

C13_Witness ==
    /\ resp.op = "branch" /\ resp.status = 200 /\ resp.arg = "failed"
    /\ \E b \in vendor_branches : b.id = resp.target

\* C14: every request whose write succeeded eventually gets its response,
\* whatever the subscriber does.
C14_ResponseNotDelayed ==
    \A s \in Slots : (reqs[s].pc = "notify") ~> (reqs[s].pc # "notify")

(* ========================== properties: offers ========================= *)
C17_Stored == \A o \in offers : o.start_date < o.end_date

C17_Step ==
    /\ \A o \in offers' \ offers : o.start_date < o.end_date
    /\ \A s \in Slots :
          ( /\ reqs[s].op = "offer" /\ reqs[s].pc = "insert"
            /\ reqs'[s].pc = "idle"
            /\ ~(reqs[s].start_date < reqs[s].end_date) )
             => offers' = offers /\ resp'.status >= 400

C18_Step ==
    (resp'.op = "offers" /\ (resp' # resp \/ listing' # listing))
       => listing' = {o \in offers' :
                         o.branch_id = resp'.target /\ o.end_date > now'}

\* C18: GET /branches/:branchId/offers returns exactly the stored offers of
\* that branch whose end_date is strictly later than the current time.
C18_ActiveOffersListed == [][C18_Step]_vars

C18_Witness ==
    /\ resp.op = "offers" /\ listing # {}
    /\ \E o \in offers :
          o.branch_id = resp.target /\ o.end_date = now /\ o \notin listing

(* =========================== properties: menu ========================== *)
\* The text contains the search text as a literal substring, case apart.
ContainsLiteral(text, search) ==
    LET t == FoldAll(Chars(text))
        p == FoldAll(Chars(search))
    IN \E i \in 0..(Len(t) - Len(p)) :
          \A j \in 1..Len(p) : t[i + j] = p[j]

\* C19: GET /branches/:branchId/menu returns exactly the menu items of the
\* branch with price >= minPrice, price <= maxPrice and name or description
\* containing the search text as a case-insensitive literal substring, an
\* absent filter imposing no restriction.
C19_MenuFilters ==
    resp.op = "menu-list"
       => /\ resp.status = 200
          /\ listing =
                {m \in menu_items :
                    /\ m.branch_id = resp.target
                    /\ resp.arg # NoText
                          => \/ ContainsLiteral(m.name, resp.arg)
                             \/ ContainsLiteral(m.description, resp.arg)
                    /\ resp.refs[1] # NoPrice => m.price >= resp.refs[1]
                    /\ resp.refs[2] # NoPrice => m.price <= resp.refs[2]}

(* ========================= properties: role gate ======================= *)
\* requireRole ran on the request: called directly, or by validateToken's
\* next().
RequireRoleRan ==
    mw.pc = "roleChecked" \/ (mw.pc = "done" /\ mw.nextCalls = 1)
AllowedRoles ==
    IF mw.required.array THEN mw.required.roles ELSE {mw.required.single}

\* C20: requireRole(allowed) lets the request proceed exactly when a
\* principal is attached and its role is in the allowed set (a single role
\* being a one-element set); it answers 403 when the role is outside the set
\* and 401 when no principal is attached, and the request does not proceed.
C20_RequireRole ==
    RequireRoleRan
       => /\ mw.handled
                <=> (mw.user # NoPrincipal /\ mw.user.role \in AllowedRoles)
          /\ mw.handled => mw.status = 0
          /\ mw.user = NoPrincipal => mw.status = 401
          /\ (mw.user # NoPrincipal /\ mw.user.role \notin AllowedRoles)
                => mw.status = 403

C20_Witness ==
    /\ RequireRoleRan /\ mw.required.array
    /\ mw.handled /\ mw.user.role = "customer"

(* ===================== properties: optional access ===================== *)
\* C21: optionalAuth always lets the request proceed: on every path it calls
\* next exactly once and sends no error response; req.user is attached
\* exactly when a bearer token was supplied and the auth service confirmed
\* it valid.
C21_OptionalAuth ==
    /\ mw.pc = "optAwait" => mw.nextCalls = 0 /\ mw.status = 0
    /\ mw.pc = "optDone"
          => /\ mw.nextCalls = 1 /\ mw.handled /\ mw.status = 0
             /\ mw.user # NoPrincipal
                   <=> (mw.header = "<bearer-token>"
                        /\ ConfirmedValid(mw.answer))
             /\ mw.user # NoPrincipal
                   => mw.user = [uid |-> mw.token,
                                 role |-> PayloadRole(mw.token)]

C21_Witness ==
    /\ mw.pc = "optDone" /\ mw.nextCalls = 1
    /\ mw.answer.kind = "refused" /\ mw.user = NoPrincipal

\* C22: a request naming a vendorId proceeds through requireVendorAccess
\* only when the user has role 'vendor' and owns that vendor.
C22_OwnVendorOnly ==
    (/\ mw.pc = "vendorAccessChecked" /\ mw.handled
     /\ NamedVendorId(mw.paramsVendorId, mw.bodyVendorId) # NULL)
       => /\ mw.user.role = "vendor"
          /\ \E v \in vendors :
                /\ v.id = NamedVendorId(mw.paramsVendorId, mw.bodyVendorId)
                /\ v.user_id = mw.user.uid

(* =================== properties: approval and creation ================= *)
CreationOps == {"branch", "menu", "offer"}

\* A creation request starts in this step: it takes a slot, or it is
\* answered by its first statement and no request in flight moves.
C23_Step ==
    \A v \in vendors :
       v.registration_status # "approved"
          => /\ \A s \in Slots :
                   ~ /\ reqs[s].pc = "idle" /\ reqs'[s].pc # "idle"
                     /\ reqs'[s].op \in CreationOps
                     /\ reqs'[s].vendorId = v.id
             /\ ( /\ resp' # resp /\ reqs' = reqs
                  /\ resp'.op \in CreationOps /\ resp'.target = v.id )
                   => /\ resp'.status = 403
                      /\ dbVars' = dbVars

\* C23: while a vendor's registration_status is not 'approved' (as an admin
\* last set it), every branch, menu-item or offer creation request for that
\* vendor that starts is answered 403 by its vendor check, goes no further
\* and writes nothing.
C23_LatestApprovalState == [][C23_Step]_vars

C23_Witness ==
    /\ resp.op = "branch" /\ resp.status = 403
    /\ \E v \in vendors :
          /\ v.id = resp.target /\ v.user_id = resp.user
          /\ v.registration_status = "suspended"
          /\ \E b \in vendor_branches : b.vendor_id = v.id

\* C24: no branch or menu item (the offers INSERT stores nothing) is
\* inserted at a moment when its vendor's registration_status is not
\* 'approved'.  The last response is the insert's 200, so the vendors table
\* is as the insert found it.
C24_NoWindow ==
    (resp.op \in CreationOps /\ resp.status = 200)
       => \E v \in vendors :
             v.id = resp.target /\ v.registration_status = "approved"

(* ====================== properties: vendor replies ===================== *)
\* The branch a review is about: its own for 'branch' and 'overall' reviews,
\* the branch of its menu item or offer for the other two types.
BranchReached(r) ==
    IF r.branch_id # NULL THEN {r.branch_id}
    ELSE IF r.menu_item_id # NULL
    THEN {m.branch_id : m \in {i \in menu_items : i.id = r.menu_item_id}}
    ELSE {o.branch_id : o \in {i \in offers : i.id = r.offer_id}}

\* reviewReachableByVendor of the specification.
ReviewReachableByVendor(reviewId, user) ==
    \E r \in reviews, vb \in vendor_branches, v \in vendors :
       /\ r.id = reviewId /\ vb.id \in BranchReached(r)
       /\ v.id = vb.vendor_id /\ v.user_id = user

VendorUsers == {u \in Users : "vendor" \in UserRoles(u)}

\* C25: for a vendor-role requester the reply handler's vendor check lets
\* the reply through exactly when the branch reached from the review belongs
\* to a vendor the requester owns, for reviews of every type.
C25_VendorReplyReach ==
    \A r \in reviews, u \in VendorUsers :
       (ReplyVendorCheck(r.id, u) # {}) <=> ReviewReachableByVendor(r.id, u)

(* ================== properties: review edit and delete ================= *)
\* C26: PUT or DELETE /reviews/:reviewId by a customer who is not the author
\* of an existing review is answered 403, and 404 is answered only when no
\* review with that id exists.  (A request answered 403 or 404 leaves the
\* store as it found it.)
C26_AbsenceOrMismatch ==
    (resp.op \in {"edit", "delete"} /\ "customer" \in UserRoles(resp.user))
       => /\ (\E r \in reviews : r.id = resp.target /\ r.user_id # resp.user)
                => resp.status = 403
          /\ resp.status = 404
                => ~ \E r \in reviews : r.id = resp.target

C27_Stored == \A r \in reviews : r.rating \in 1..5

C27_Step ==
    (resp'.op = "edit" /\ resp'.num \notin 1..5) => reviews' = reviews

\* C27: every stored review has a rating between 1 and 5, also after any
\* number of edits; an edit carrying a rating outside 1..5 leaves the stored
\* rating and comment unchanged.
C27_RatingInRange == []C27_Stored /\ [][C27_Step]_vars

C27_Witness ==
    /\ resp.op = "edit" /\ resp.num = 6 /\ resp.status = 500
    /\ \E r \in reviews :
          /\ r.id = resp.target /\ r.user_id = resp.user
          /\ r.rating = 1 /\ r.comment # resp.arg

\* Ids are handed out once: every stored review has an id below nextId.
C28_Ids == \A r \in reviews : r.id < nextId

C28_Step ==
    /\ nextId' >= nextId
    /\ \A r \in reviews' :
          (~ \E q \in reviews : q.id = r.id) => r.id >= nextId
    /\ (resp' # resp /\ resp'.op = "edit" /\ resp'.status = 200)
          => /\ \E r \in reviews :
                   r.id = resp'.target /\ r.user_id = resp'.user
             /\ \E r \in reviews' :
                   /\ r.id = resp'.target /\ r.user_id = resp'.user
                   /\ r.rating = resp'.num /\ r.comment = resp'.arg
    /\ (resp' # resp /\ resp'.op = "delete" /\ resp'.status = 200)
          => /\ \E r \in reviews :
                   r.id = resp'.target /\ r.user_id = resp'.user
             /\ ~ \E r \in reviews' : r.id = resp'.target
    /\ ( /\ resp' # resp /\ resp'.op \in {"edit", "delete"}
         /\ resp'.status = 404 )
          => /\ ~ \E r \in reviews :
                   r.id = resp'.target /\ r.user_id = resp'.user
             /\ reviews' = reviews
    /\ ( /\ resp'.op = "delete" /\ "customer" \in UserRoles(resp'.user)
         /\ \E r \in reviews :
               r.id = resp'.target /\ r.user_id = resp'.user )
          => resp'.status = 200

\* C28: an edit or a delete tests (id, author) and mutates in one step: an
\* edit reports success only if the author's review existed at that step, a
\* deleted review never comes back and is never modified, and a delete by
\* the author succeeds exactly when the review is still there, so of two
\* deletes of one review one reports success and the other 404.
C28_AtomicEditDelete == []C28_Ids /\ [][C28_Step]_vars

\* The second of two deletes of a review by its author.
C28_Witness ==
    /\ resp.op = "delete" /\ resp.status = 404
    /\ "customer" \in UserRoles(resp.user)
    /\ resp.target # NULL /\ resp.target < nextId
    /\ ~ \E r \in reviews : r.id = resp.target

====
